---- MODULE Spec2Model ----
(***************************************************************************)
(* Floor-plan caption generation (Data_Preparation/gen_caption_revised.py *)
(* and gen_caption.py): the drawing parser, the taxonomy aggregation, the *)
(* kitchen/living adjacency test, the door/window counter, the caption    *)
(* composer and the batch driver that writes one caption file per image.  *)
(*                                                                         *)
(* Python strings are TLA+ strings, handled character by character with   *)
(* Len, SubSeq and \o, so that substring tests ("door" in cls), str.lower, *)
(* str.replace, str.split and str.format are computed, not assumed.       *)
(* An exception that leaves a function is the value of its "exc" field.    *)
(***************************************************************************)
EXTENDS Integers, Sequences, FiniteSets, TLC

VARIABLES svg_root, png_files, pos, caption_dir, pc, call, ret

vars == <<svg_root, png_files, pos, caption_dir, pc, call, ret>>

(***************************************************************************)
(* Bounds of the model.                                                    *)
(***************************************************************************)
\* plural_phrase is applied to every n in -MaxCount .. MaxCount
MaxCount == 3
\* a room list has at most MaxRooms rooms
MaxRooms == 3
\* a tally and its door/window counts add up to at most MaxItems
MaxItems == 3
\* a drawing has at most MaxGroups <g> elements
MaxGroups == 2

(***************************************************************************)
(* Python's str operations.                                                *)
(***************************************************************************)
Char(s, i) == SubSeq(s, i, i)

\* sub in s
Contains(s, sub) ==
    \E i \in 1..(Len(s) - Len(sub) + 1) : SubSeq(s, i, i + Len(sub) - 1) = sub

\* s.startswith(p)
StartsWith(s, p) == Len(s) >= Len(p) /\ SubSeq(s, 1, Len(p)) = p

\* s.replace(old, new): every non-overlapping occurrence, left to right
RECURSIVE Replace(_, _, _)
Replace(s, old, new) ==
    IF Len(s) = 0 THEN ""
    ELSE IF StartsWith(s, old)
         THEN new \o Replace(SubSeq(s, Len(old) + 1, Len(s)), old, new)
         ELSE Char(s, 1) \o Replace(SubSeq(s, 2, Len(s)), old, new)

\* s.find(c, k - 1) + 1 for a character c: the first position from k on, or 0
RECURSIVE Find(_, _, _)
Find(s, c, k) ==
    IF k > Len(s) THEN 0
    ELSE IF Char(s, k) = c THEN k
    ELSE Find(s, c, k + 1)

UpperCase == "ABCDEFGHIJKLMNOPQRSTUVWXYZ"
LowerCase == "abcdefghijklmnopqrstuvwxyz"

\* the lower-case and the upper-case form of each letter
ToLower == [c \in {Char(UpperCase, i) : i \in 1..Len(UpperCase)} |->
               Char(LowerCase, Find(UpperCase, c, 1))]
ToUpper == [c \in {Char(LowerCase, i) : i \in 1..Len(LowerCase)} |->
               Char(UpperCase, Find(LowerCase, c, 1))]

LowerChar(c) == IF c \in DOMAIN ToLower THEN ToLower[c] ELSE c

UpperChar(c) == IF c \in DOMAIN ToUpper THEN ToUpper[c] ELSE c

\* s.lower()
RECURSIVE Lower(_)
Lower(s) ==
    IF Len(s) = 0 THEN "" ELSE LowerChar(Char(s, 1)) \o Lower(SubSeq(s, 2, Len(s)))

\* s.capitalize(): first character upper-cased, the rest lower-cased
Capitalize(s) ==
    IF Len(s) = 0 THEN "" ELSE UpperChar(Char(s, 1)) \o Lower(SubSeq(s, 2, Len(s)))

\* s.strip()
RECURSIVE Strip(_)
Strip(s) ==
    IF Len(s) = 0 THEN ""
    ELSE IF Char(s, 1) = " " THEN Strip(SubSeq(s, 2, Len(s)))
    ELSE IF Char(s, Len(s)) = " " THEN Strip(SubSeq(s, 1, Len(s) - 1))
    ELSE s

\* s.split(sep): the pieces between the occurrences of the one-character sep
RECURSIVE SplitOn(_, _)
SplitOn(s, sep) ==
    LET i == Find(s, sep, 1)
    IN  IF i = 0 THEN <<s>>
        ELSE <<SubSeq(s, 1, i - 1)>> \o SplitOn(SubSeq(s, i + 1, Len(s)), sep)

\* s.split(): the non-empty runs between blanks
SplitBlank(s) == SelectSeq(SplitOn(s, " "), LAMBDA p : Len(p) > 0)

(***************************************************************************)
(* Module constants of gen_caption_revised.py.                             *)
(***************************************************************************)
\* ROOM_MAPPING: raw room type -> category
ROOM_MAPPING ==
    ("bedroom" :> "bedrooms") @@ ("bath" :> "bathrooms") @@
    ("bath shower" :> "bathrooms_shower") @@ ("kitchen" :> "kitchens") @@
    ("livingroom" :> "living_rooms") @@ ("diningroom" :> "dining_rooms") @@
    ("entry lobby" :> "corridors") @@ ("draughtlobby" :> "corridors") @@
    ("corridor" :> "corridors") @@ ("hall" :> "corridors") @@
    ("storage" :> "storage") @@ ("outdoor" :> "outdoor")

\* the keys of the counts dictionary of aggregate_room_counts
Categories ==
    {"bedrooms", "bathrooms", "bathrooms_shower", "kitchens", "living_rooms",
     "dining_rooms", "corridors", "storage", "outdoor"}

TEMPLATES ==
    << "top-down {apt_word} {fp_word} showing {core_desc}, rendered as a clean black-and-white architectural drawing with {doors_phrase}{windows_phrase}",
       "{fp_word_cap} of a {apt_word} that contains {core_desc}, drawn in a monochrome architectural style with {doors_phrase}{windows_phrase}",
       "black-and-white {fp_word} of a {apt_word} featuring {core_desc}; the layout includes {doors_phrase}{windows_phrase}",
       "architectural {fp_word} of a {apt_word}, top-down view, with {core_desc} and {doors_phrase}{windows_phrase}" >>

\* the lists random.choice draws the synonyms from
AptWords == <<"apartment", "flat", "residential unit">>
FpWords  == <<"floor plan", "layout", "blueprint">>

\* one outcome of the three random.choice calls of build_caption
Draws == [apt : 1..Len(AptWords), fp : 1..Len(FpWords), template : 1..Len(TEMPLATES)]

(***************************************************************************)
(* Small helpers.                                                          *)
(***************************************************************************)
\* the default of the parameter plural; a supplied plural p is <<p>>
None == <<>>

PluralPhraseDropsOne(n, singular, plural) ==
    IF n <= 1 THEN ""
    ELSE ToString(n) \o " " \o (IF plural = None THEN singular \o "s" ELSE plural[1])

plural_phrase(n, singular, plural) ==
    IF n <= 0 THEN ""
    ELSE LET pl == IF plural = None THEN singular \o "s" ELSE plural[1]
         IN  IF n = 1 THEN "1 " \o singular
             ELSE ToString(n) \o " " \o pl

RECURSIVE Join(_, _)
Join(parts, sep) ==
    IF Len(parts) = 0 THEN ""
    ELSE IF Len(parts) = 1 THEN parts[1]
    ELSE parts[1] \o sep \o Join(Tail(parts), sep)

join_non_empty(parts, sep) == Join(SelectSeq(parts, LAMBDA p : p # ""), sep)

\* template.format(**kw): each {name} replaced by kw[name]; KeyError when the
\* keyword arguments do not supply name
RECURSIVE Format(_, _)
Format(t, kw) ==
    LET i == Find(t, "{", 1)
    IN  IF i = 0 THEN [exc |-> "", val |-> t]
        ELSE LET j    == Find(t, "}", i)
                 name == SubSeq(t, i + 1, j - 1)
                 rest == Format(SubSeq(t, j + 1, Len(t)), kw)
             IN  IF name \notin DOMAIN kw THEN [exc |-> "KeyError", val |-> name]
                 ELSE IF rest.exc # "" THEN rest
                 ELSE [exc |-> "", val |-> SubSeq(t, 1, i - 1) \o kw[name] \o rest.val]

(***************************************************************************)
(* Parse SVG and extract rooms.  A drawing is the sequence of its <g>      *)
(* elements in document order (root.findall(".//svg:g")); a <g> is its     *)
(* class attribute ("" when it has none) and the "points" attributes of    *)
(* its <polygon> descendants in document order ("" when a polygon has no   *)
(* points).                                                                *)
(***************************************************************************)
Digits == "0123456789"

\* float(tok) succeeds: the model's coordinates are unsigned decimal integers
IsNumber(tok) == Len(tok) > 0 /\ \A i \in 1..Len(tok) : Find(Digits, Char(tok, i), 1) > 0

\* float(tok) for such a token
RECURSIVE Float(_)
Float(tok) ==
    IF Len(tok) = 0 THEN 0
    ELSE 10 * Float(SubSeq(tok, 1, Len(tok) - 1)) + (Find(Digits, Char(tok, Len(tok)), 1) - 1)

\* [tuple(map(float, p.split(","))) for p in points.split()]
ParsePoints(points) ==
    LET toks == SplitBlank(points)
        bad  == \E i \in 1..Len(toks) :
                    \E j \in 1..Len(SplitOn(toks[i], ",")) :
                        ~IsNumber(SplitOn(toks[i], ",")[j])
    IN  IF bad THEN [exc |-> "ValueError", val |-> <<>>]
        ELSE [exc |-> "",
              val |-> [i \in 1..Len(toks) |->
                         LET c == SplitOn(toks[i], ",")
                         IN  [j \in 1..Len(c) |-> Float(c[j])]]]

\* the inner loop of parse_rooms: the first polygon with a non-empty points
\* attribute
RECURSIVE FirstPolygon(_)
FirstPolygon(polys) ==
    IF Len(polys) = 0 THEN [exc |-> "", found |-> FALSE, coords |-> <<>>]
    ELSE IF polys[1] = "" THEN FirstPolygon(Tail(polys))
    ELSE LET c == ParsePoints(polys[1])
         IN  [exc |-> c.exc, found |-> c.exc = "", coords |-> c.val]

\* cls.replace("Space ", "").lower().strip()
RoomTypeRaw(cls) == Strip(Lower(Replace(cls, "Space ", "")))

RECURSIVE parse_rooms(_)
parse_rooms(drawing) ==
    IF Len(drawing) = 0 THEN [exc |-> "", val |-> <<>>]
    ELSE LET g == drawing[1]
         IN  IF ~StartsWith(g.cls, "Space ") THEN parse_rooms(Tail(drawing))
             ELSE LET fp == FirstPolygon(g.polygons)
                  IN  IF fp.exc # "" THEN [exc |-> fp.exc, val |-> <<>>]
                      ELSE LET rest == parse_rooms(Tail(drawing))
                           IN  IF rest.exc # "" THEN rest
                               ELSE [exc |-> "",
                                     val |-> (IF fp.found
                                              THEN <<[type |-> RoomTypeRaw(g.cls),
                                                      polygon |-> fp.coords]>>
                                              ELSE <<>>) \o rest.val]

(***************************************************************************)
(* Polygon.touches of shapely for the polygons of the model, which are     *)
(* axis-parallel rectangles of positive area: the closed rectangles meet   *)
(* and their interiors do not.                                             *)
(***************************************************************************)
MinOf(S) == CHOOSE m \in S : \A x \in S : m <= x
MaxOf(S) == CHOOSE m \in S : \A x \in S : x <= m
Xs(poly) == {poly[i][1] : i \in 1..Len(poly)}
Ys(poly) == {poly[i][2] : i \in 1..Len(poly)}

Touches(a, b) ==
    /\ MinOf(Xs(a)) <= MaxOf(Xs(b)) /\ MinOf(Xs(b)) <= MaxOf(Xs(a))
    /\ MinOf(Ys(a)) <= MaxOf(Ys(b)) /\ MinOf(Ys(b)) <= MaxOf(Ys(a))
    /\ ~ ( /\ MinOf(Xs(a)) < MaxOf(Xs(b)) /\ MinOf(Xs(b)) < MaxOf(Xs(a))
           /\ MinOf(Ys(a)) < MaxOf(Ys(b)) /\ MinOf(Ys(b)) < MaxOf(Ys(a)) )

(***************************************************************************)
(* Connectivity detection (open kitchen <-> living room) -> boolean.       *)
(***************************************************************************)
\* for l in living: if k["polygon"].touches(l["polygon"]): return True
RECURSIVE LivingLoop(_, _)
LivingLoop(k, living) ==
    IF Len(living) = 0 THEN FALSE
    ELSE IF Touches(k.polygon, living[1].polygon) THEN TRUE
    ELSE LivingLoop(k, Tail(living))

\* for k in kitchen: ...; return False
RECURSIVE KitchenLoop(_, _)
KitchenLoop(kitchen, living) ==
    IF Len(kitchen) = 0 THEN FALSE
    ELSE IF LivingLoop(kitchen[1], living) THEN TRUE
    ELSE KitchenLoop(Tail(kitchen), living)

OpenPlanFirstPairOnly(rooms) ==
    LET kitchen == SelectSeq(rooms, LAMBDA r : Contains(r.type, "kitchen"))
        living  == SelectSeq(rooms, LAMBDA r : Contains(r.type, "living"))
    IN  /\ Len(kitchen) > 0 /\ Len(living) > 0
        /\ Touches(kitchen[1].polygon, living[1].polygon)

has_open_plan_kitchen(rooms) ==
    LET kitchen == SelectSeq(rooms, LAMBDA r : Contains(r.type, "kitchen"))
        living  == SelectSeq(rooms, LAMBDA r : Contains(r.type, "living"))
    IN  KitchenLoop(kitchen, living)

(***************************************************************************)
(* Door & window counting.                                                 *)
(***************************************************************************)
count_doors_windows(drawing) ==
    [doors   |-> Cardinality({i \in 1..Len(drawing) : Contains(Lower(drawing[i].cls), "door")}),
     windows |-> Cardinality({i \in 1..Len(drawing) : Contains(Lower(drawing[i].cls), "window")})]

(***************************************************************************)
(* Aggregate room counts using ROOM_MAPPING.                               *)
(***************************************************************************)
\* the loop of aggregate_room_counts from the counts so far
RECURSIVE CountRooms(_, _)
CountRooms(rooms, counts) ==
    IF Len(rooms) = 0 THEN counts
    ELSE LET raw_type == rooms[1].type
         IN  IF raw_type \in DOMAIN ROOM_MAPPING /\ ROOM_MAPPING[raw_type] \in DOMAIN counts
             THEN CountRooms(Tail(rooms),
                             [counts EXCEPT ![ROOM_MAPPING[raw_type]] = @ + 1])
             ELSE CountRooms(Tail(rooms), counts)

AggregateSubstringMatch(rooms) ==
    [c \in Categories |->
        Cardinality({i \in 1..Len(rooms) :
            \E raw \in DOMAIN ROOM_MAPPING :
                ROOM_MAPPING[raw] = c /\ Contains(rooms[i].type, raw)})]

aggregate_room_counts(rooms) == CountRooms(rooms, [c \in Categories |-> 0])

(***************************************************************************)
(* Caption builder.  Compose is build_caption from the tally on: it        *)
(* returns the caption and the locals the caption is built from.           *)
(***************************************************************************)
\* bathroom_phrase, with the "with shower" information integrated
bathroom_phrase(counts) ==
    LET total_bathrooms == counts["bathrooms"] + counts["bathrooms_shower"]
        phrase == plural_phrase(total_bathrooms, "bathroom", None)
    IN  IF counts["bathrooms_shower"] > 0
        THEN LET shower_text ==
                    plural_phrase(counts["bathrooms_shower"], "one with shower",
                                  <<ToString(counts["bathrooms_shower"]) \o " with shower">>)
             IN  phrase \o " including " \o shower_text
        ELSE phrase

CorePartsKeepSeparate(counts, open_plan) ==
    LET merged == open_plan /\ counts["kitchens"] > 0 /\ counts["living_rooms"] > 0
    IN  << plural_phrase(counts["bedrooms"], "bedroom", None),
           bathroom_phrase(counts),
           IF merged
           THEN plural_phrase(counts["kitchens"], "open-plan kitchen", <<"open-plan kitchens">>)
                \o " connected to "
                \o plural_phrase(counts["living_rooms"], "living room", None)
           ELSE "",
           plural_phrase(counts["kitchens"], "kitchen", None),
           plural_phrase(counts["living_rooms"], "living room", None),
           plural_phrase(counts["corridors"], "corridor", None),
           plural_phrase(counts["outdoor"], "balcony or outdoor area", None) >>

\* core_parts: bedroom, bathroom, open-plan, kitchen, living, corridor, outdoor
core_parts(counts, open_plan) ==
    LET merged == open_plan /\ counts["kitchens"] > 0 /\ counts["living_rooms"] > 0
        open_plan_phrase ==
            IF merged
            THEN plural_phrase(counts["kitchens"], "open-plan kitchen", <<"open-plan kitchens">>)
                 \o " connected to "
                 \o plural_phrase(counts["living_rooms"], "living room", None)
            ELSE ""
        kitchen_phrase ==
            IF merged THEN "" ELSE plural_phrase(counts["kitchens"], "kitchen", None)
        living_phrase ==
            IF merged THEN "" ELSE plural_phrase(counts["living_rooms"], "living room", None)
    IN  << plural_phrase(counts["bedrooms"], "bedroom", None),
           bathroom_phrase(counts),
           open_plan_phrase,
           kitchen_phrase,
           living_phrase,
           plural_phrase(counts["corridors"], "corridor", None),
           plural_phrase(counts["outdoor"], "balcony or outdoor area", None) >>

\* doors_phrase and windows_phrase as they are passed to the template
opening_phrases(doors, windows) ==
    LET doors_phrase   == plural_phrase(doors, "door", None)
        windows_phrase == plural_phrase(windows, "window", None)
    IN  IF doors_phrase # "" /\ windows_phrase # ""
        THEN [doors_phrase |-> doors_phrase, windows_phrase |-> " and " \o windows_phrase]
        ELSE IF doors_phrase = "" /\ windows_phrase = ""
        THEN [doors_phrase |-> "no specified openings", windows_phrase |-> ""]
        ELSE [doors_phrase |-> doors_phrase, windows_phrase |-> windows_phrase]

FormatArgsWithoutCap(apt_word, fp_word, core_desc, openings) ==
    [apt_word |-> apt_word, fp_word |-> fp_word, core_desc |-> core_desc,
     doors_phrase |-> openings.doors_phrase, windows_phrase |-> openings.windows_phrase]

\* the keyword arguments of template.format
format_args(apt_word, fp_word, core_desc, openings) ==
    [apt_word |-> apt_word, fp_word |-> fp_word, fp_word_cap |-> Capitalize(fp_word),
     core_desc |-> core_desc,
     doors_phrase |-> openings.doors_phrase, windows_phrase |-> openings.windows_phrase]

ChosenTemplateDropsWindows(d) ==
    IF d = 3
    THEN "black-and-white {fp_word} of a {apt_word} featuring {core_desc}; the layout includes {doors_phrase}"
    ELSE TEMPLATES[d]

\* random.choice(TEMPLATES) for the draw d
chosen_template(d) == TEMPLATES[d]

Compose(counts, open_plan, doors, windows, draw) ==
    LET parts     == core_parts(counts, open_plan)
        core_desc == join_non_empty(parts, ", ")
        openings  == opening_phrases(doors, windows)
        formatted == Format(chosen_template(draw.template),
                            format_args(AptWords[draw.apt], FpWords[draw.fp],
                                        core_desc, openings))
    IN  [exc            |-> formatted.exc,
         caption        |-> IF formatted.exc = "" THEN formatted.val ELSE "",
         core_parts     |-> parts,
         core_desc      |-> core_desc,
         doors_phrase   |-> openings.doors_phrase,
         windows_phrase |-> openings.windows_phrase,
         draw           |-> draw]

\* the record an exception leaves in place of Compose's
Raised(exc, draw) ==
    [exc |-> exc, caption |-> "", core_parts |-> <<>>, core_desc |-> "",
     doors_phrase |-> "", windows_phrase |-> "", draw |-> draw]

build_caption(drawing, draw) ==
    LET rooms == parse_rooms(drawing)
    IN  IF rooms.exc # "" THEN Raised(rooms.exc, draw)
        ELSE LET counts == aggregate_room_counts(rooms.val)
                 dw     == count_doors_windows(drawing)
             IN  Compose(counts, has_open_plan_kitchen(rooms.val), dw.doors, dw.windows, draw)

(***************************************************************************)
(* The inputs.                                                             *)
(***************************************************************************)
G(cls, polys) == [cls |-> cls, polygons |-> polys]

\* points attributes: four rectangles, and two malformed lists
RectA == "0,0 2,0 2,2 0,2"
\* shares the edge x = 2 with RectA
RectB == "2,0 4,0 4,2 2,2"
\* apart from RectA and RectB
RectC == "5,5 7,5 7,7 5,7"
\* overlaps RectA and RectB
RectD == "1,1 3,1 3,3 1,3"
BadSyntax == "0,0 2;0 2,2 0,2"
BadToken  == "0,0 2,0 2,x 0,2"

\* the end-to-end drawing: bedroom, bath with shower, kitchen and living room
\* sharing an edge, two door groups and three window groups
EndToEnd ==
    << G("Space Bedroom", <<RectC>>), G("Space Bath Shower", <<RectD>>),
       G("Space Kitchen", <<RectA>>), G("Space LivingRoom", <<RectB>>),
       G("Door Swing Beside", <<>>), G("Door Swing Beside", <<>>),
       G("Window Regular", <<>>), G("Window Regular", <<>>), G("Window Regular", <<>>) >>

\* no room and no opening: walls only
WallsOnly == << G("Wall External", <<RectA>>), G("", <<>>) >>

\* kitchen and living room apart, two baths, a room whose first polygon has no
\* points, a room without polygon, an unmapped room type
Apart ==
    << G("Space Kitchen", <<"", RectA, RectB>>), G("Space LivingRoom", <<RectC>>),
       G("Space Bath", <<RectD>>), G("Space Bath Shower", <<RectD>>),
       G("Space Bath Shower", <<RectD>>), G("Space Hall", <<>>),
       G("Space Undefined", <<RectB>>), G("Window Regular", <<>>) >>

\* a points list with a bad separator, and one with a non-numeric token
MalformedSyntax == << G("Space Bedroom", <<RectA>>), G("Space Kitchen", <<BadSyntax>>) >>
MalformedToken  == << G("Space Bedroom", <<BadToken>>), G("Door Swing Beside", <<>>) >>

Catalogue == {EndToEnd, WallsOnly, Apart, MalformedSyntax, MalformedToken}

\* the drawings under svg_root in a batch
BatchDrawings == {EndToEnd, WallsOnly, MalformedToken}

\* the plan identifiers, in the order sorted() gives their paths
SortedIds == <<"17", "19">>
PlanIds   == {SortedIds[i] : i \in 1..Len(SortedIds)}

\* sorted(image_dir.glob("*.png")) for the images of the identifiers in ids
SortedStems(ids) == SelectSeq(SortedIds, LAMBDA x : x \in ids)

RECURSIVE SeqsUpTo(_, _)
SeqsUpTo(S, n) ==
    IF n = 0 THEN {<<>>}
    ELSE LET shorter == SeqsUpTo(S, n - 1)
         IN  shorter \cup {Append(q, x) : q \in shorter, x \in S}

Singulars == {"bedroom", "living room", "one with shower", "open-plan kitchen", "door"}
Plurals   == {None, <<"open-plan kitchens">>, <<"3 with shower">>, <<"">>}

\* raw room types: the keys of ROOM_MAPPING and two that are not keys
RawTypes == DOMAIN ROOM_MAPPING \cup {"undefined", "open kitchen"}

RectPoly(points) == ParsePoints(points).val

\* rooms for the adjacency test
AdjacencyRooms ==
    [type : {"kitchen", "open kitchen", "livingroom", "bedroom"},
     polygon : {RectPoly(RectA), RectPoly(RectB), RectPoly(RectC)}]

\* class attributes of <g> elements: every room type of the taxonomy as the
\* drawings spell it, and groups that are no rooms
RoomClasses ==
    {"Space Bedroom", "Space Bath", "Space Bath Shower", "Space Kitchen",
     "Space LivingRoom", "Space DiningRoom", "Space Entry Lobby", "Space DraughtLobby",
     "Space Corridor", "Space Hall", "Space Storage", "Space Outdoor"}
OtherClasses == {"Door Swing Beside", "Window Regular", "Wall External", ""}

RoomGroups  == {G(c, <<RectA>>) : c \in RoomClasses}
OtherGroups == {G(c, <<>>) : c \in OtherClasses}

Slots == Categories \cup {"doors", "windows"}

\* tallies and door/window counts adding up to at most n: the load of every
\* sequence of at most n items
Loads(n) ==
    {[x \in Slots |-> Cardinality({i \in 1..Len(q) : q[i] = x})] : q \in SeqsUpTo(Slots, n)}

RECURSIVE Sum(_, _)
Sum(f, S) == IF S = {} THEN 0 ELSE LET x == CHOOSE y \in S : TRUE IN f[x] + Sum(f, S \ {x})

Insert(q, k, x) == SubSeq(q, 1, k) \o <<x>> \o SubSeq(q, k + 1, Len(q))
Remove(q, k)    == SubSeq(q, 1, k - 1) \o SubSeq(q, k + 1, Len(q))
\* q with its elements at i and j exchanged
Exchange(q, i, j) ==
    [k \in 1..Len(q) |-> IF k = i THEN q[j] ELSE IF k = j THEN q[i] ELSE q[k]]

(***************************************************************************)
(* The batch driver generate_for_selected_images, one loop iteration per   *)
(* step.  svg_root maps the identifiers that have a model.svg to the       *)
(* drawing in it; caption_dir maps the names of the files written to their *)
(* text.                                                                   *)
(***************************************************************************)
NotCalled == [done |-> FALSE]

InitBatch ==
    /\ svg_root \in UNION {[ids -> BatchDrawings] : ids \in SUBSET PlanIds}
    /\ png_files \in {SortedStems(ids) : ids \in SUBSET PlanIds}
    /\ pos = 1
    /\ caption_dir = <<>>
    /\ pc = "loop"
    /\ call = [fn |-> "generate_for_selected_images"]
    /\ ret = NotCalled

\* if not svg_path.exists(): warning, continue
SkipMissing ==
    /\ pc = "loop" /\ pos <= Len(png_files)
    /\ png_files[pos] \notin DOMAIN svg_root
    /\ pos' = pos + 1
    /\ UNCHANGED <<svg_root, png_files, caption_dir, pc, call, ret>>

\* caption = build_caption(svg_path); out_file.write_text(caption)
WriteCaption ==
    /\ pc = "loop" /\ pos <= Len(png_files)
    /\ png_files[pos] \in DOMAIN svg_root
    /\ \E draw \in Draws :
         LET r == build_caption(svg_root[png_files[pos]], draw)
         IN  /\ r.exc = ""
             /\ caption_dir' = ((png_files[pos] \o ".txt") :> r.caption) @@ caption_dir
    /\ pos' = pos + 1
    /\ UNCHANGED <<svg_root, png_files, pc, call, ret>>

\* build_caption raises: nothing in the loop catches it, the exception leaves
\* generate_for_selected_images
Propagate ==
    /\ pc = "loop" /\ pos <= Len(png_files)
    /\ png_files[pos] \in DOMAIN svg_root
    /\ \E draw \in Draws : build_caption(svg_root[png_files[pos]], draw).exc # ""
    /\ pc' = "raised"
    /\ UNCHANGED <<svg_root, png_files, pos, caption_dir, call, ret>>

\* the loop is exhausted
Return ==
    /\ pc = "loop" /\ pos > Len(png_files)
    /\ pc' = "done"
    /\ UNCHANGED <<svg_root, png_files, pos, caption_dir, call, ret>>

Next == SkipMissing \/ WriteCaption \/ Propagate \/ Return

Spec == InitBatch /\ [][Next]_vars

(***************************************************************************)
(* The functions applied to enumerated inputs: call is the function and    *)
(* its arguments, ret its result once it has returned.                     *)
(***************************************************************************)
BatchIdle ==
    /\ svg_root = <<>> /\ png_files = <<>> /\ pos = 1 /\ caption_dir = <<>> /\ pc = "idle"

Returns(v) ==
    /\ ~ret.done
    /\ ret' = [done |-> TRUE, val |-> v]
    /\ UNCHANGED <<svg_root, png_files, pos, caption_dir, pc, call>>

CallPluralPhrase ==
    /\ call.fn = "plural_phrase"
    /\ Returns(plural_phrase(call.n, call.singular, call.plural))

CallCompose ==
    /\ call.fn = "compose"
    /\ \E draw \in Draws :
         Returns(Compose(call.counts, call.open_plan, call.doors, call.windows, draw))

CallAggregate ==
    /\ call.fn = "aggregate_room_counts"
    /\ Returns(aggregate_room_counts(call.rooms))

CallOpenPlan ==
    /\ call.fn = "has_open_plan_kitchen"
    /\ Returns(has_open_plan_kitchen(call.rooms))

CallCountDoorsWindows ==
    /\ call.fn = "count_doors_windows"
    /\ Returns(count_doors_windows(call.drawing))

\* build_caption run on the same drawing a first and a second time
CallBuildCaption ==
    /\ call.fn = "build_caption"
    /\ Len(ret.runs) < 2
    /\ \E draw \in Draws :
         ret' = [done |-> TRUE, runs |-> Append(ret.runs, build_caption(call.drawing, draw))]
    /\ UNCHANGED <<svg_root, png_files, pos, caption_dir, pc, call>>

\* plural_phrase on every n, and the composer on every tally, flag and
\* door/window counts
InitUnit ==
    /\ BatchIdle
    /\ ret = NotCalled
    /\ \/ call \in [fn : {"plural_phrase"}, n : (0 - MaxCount)..MaxCount,
                    singular : Singulars, plural : Plurals]
       \/ \E load \in Loads(MaxItems), flag \in BOOLEAN :
            call = [fn |-> "compose", counts |-> [c \in Categories |-> load[c]],
                    open_plan |-> flag, doors |-> load["doors"], windows |-> load["windows"]]

NextUnit == CallPluralPhrase \/ CallCompose

SpecUnit == InitUnit /\ [][NextUnit]_vars

\* the aggregator on room lists over every raw type, the adjacency test on
\* room lists over the rectangles, the marker count on drawings
InitRooms ==
    /\ BatchIdle
    /\ ret = NotCalled
    /\ \/ \E types \in SeqsUpTo(RawTypes, MaxRooms) :
            call = [fn |-> "aggregate_room_counts",
                    rooms |-> [i \in 1..Len(types) |->
                                 [type |-> types[i], polygon |-> RectPoly(RectA)]]]
       \/ call \in [fn : {"has_open_plan_kitchen"}, rooms : SeqsUpTo(AdjacencyRooms, MaxRooms)]
       \/ call \in [fn : {"count_doors_windows"},
                    drawing : SeqsUpTo(RoomGroups \cup OtherGroups, MaxGroups)]

NextRooms == CallAggregate \/ CallOpenPlan \/ CallCountDoorsWindows

SpecRooms == InitRooms /\ [][NextRooms]_vars

\* build_caption on each drawing of the catalogue, twice
InitRerun ==
    /\ BatchIdle
    /\ ret = [done |-> FALSE, runs |-> <<>>]
    /\ call \in [fn : {"build_caption"}, drawing : Catalogue]

NextRerun == CallBuildCaption

SpecRerun == InitRerun /\ [][NextRerun]_vars

(***************************************************************************)
(* Properties.                                                             *)
(***************************************************************************)
Range(q) == {q[i] : i \in 1..Len(q)}

\* "<n> <noun>" for n = 1 and "<n> <noun>s" for n >= 2, written out
CountNoun(n, noun) ==
    IF n = 1 THEN "1 " \o noun ELSE ToString(n) \o " " \o noun \o "s"

\* the drawing of an identifier parses
WellFormed(id) == parse_rooms(svg_root[id]).exc = ""

BatchEnded == pc \in {"done", "raised"}

\* C1: in a batch, an identifier without drawing never gets a caption file and
\* never stops the loop, and when the batch has ended the caption files written
\* are exactly the files <id>.txt of the identifiers of the list whose drawing
\* is present and well-formed, one for each.
C1_CaptionPerPresentDrawing ==
    /\ \A id \in PlanIds : id \notin DOMAIN svg_root => (id \o ".txt") \notin DOMAIN caption_dir
    /\ (pc = "raised" => png_files[pos] \in DOMAIN svg_root)
    /\ BatchEnded =>
         DOMAIN caption_dir =
            {id \o ".txt" : id \in {x \in Range(png_files) \cap DOMAIN svg_root : WellFormed(x)}}

\* C2: a malformed drawing never aborts the batch: no exception leaves the
\* batch driver, and when the batch has ended every identifier with a
\* well-formed drawing, the later ones included, has its caption file.
C2_MalformedNeverAborts ==
    /\ pc # "raised"
    /\ BatchEnded =>
         \A id \in Range(png_files) :
            (id \in DOMAIN svg_root /\ WellFormed(id)) => (id \o ".txt") \in DOMAIN caption_dir

ComposeReturned == call.fn = "compose" /\ ret.done

\* the phrases joined into the core description
JoinedPhrases == Range(ret.val.core_parts) \ {""}

MergedPhrase ==
    CountNoun(call.counts["kitchens"], "open-plan kitchen") \o " connected to "
        \o CountNoun(call.counts["living_rooms"], "living room")

\* C3: when the flag is true and kitchens > 0 and living_rooms > 0, the phrases
\* joined into the core description hold the merged open-plan phrase exactly
\* once and neither the separate kitchen phrase nor the separate living-room
\* phrase; otherwise they hold no open-plan phrase, and the separate kitchen and
\* living-room phrases of the non-zero counts.
C3_OpenPlanSuppression ==
    ComposeReturned =>
        LET k     == call.counts["kitchens"]
            l     == call.counts["living_rooms"]
            parts == ret.val.core_parts
        IN  IF call.open_plan /\ k > 0 /\ l > 0
            THEN /\ Cardinality({i \in 1..Len(parts) : parts[i] = MergedPhrase}) = 1
                 /\ Cardinality({i \in 1..Len(parts) : Contains(parts[i], "open-plan")}) = 1
                 /\ CountNoun(k, "kitchen") \notin JoinedPhrases
                 /\ CountNoun(l, "living room") \notin JoinedPhrases
            ELSE /\ \A ph \in JoinedPhrases : ~Contains(ph, "open-plan")
                 /\ (k > 0 => CountNoun(k, "kitchen") \in JoinedPhrases)
                 /\ (l > 0 => CountNoun(l, "living room") \in JoinedPhrases)
                 /\ (k = 0 => \A ph \in JoinedPhrases : ~Contains(ph, "kitchen"))
                 /\ (l = 0 => \A ph \in JoinedPhrases : ~Contains(ph, "living room"))

C3_Witness ==
    /\ ComposeReturned /\ call.open_plan
    /\ call.counts["kitchens"] = 1 /\ call.counts["living_rooms"] = 1
    /\ ret.val.core_desc = "1 open-plan kitchen connected to 1 living room"

\* the nouns of the category phrases
CategoryNouns ==
    {"bedroom", "bathroom", "kitchen", "living room", "corridor", "balcony or outdoor area"}

NothingCounted ==
    /\ \A c \in Categories : call.counts[c] = 0
    /\ ~call.open_plan /\ call.doors = 0 /\ call.windows = 0

\* C4: the composer raises for no tally, flag, door/window counts and draw
\* (every slot of the drawn template is supplied), and when nothing is counted
\* the caption is non-empty, contains "no specified openings" and contains no
\* category phrase.
C4_NeverRaises ==
    ComposeReturned =>
        /\ ret.val.exc = ""
        /\ ~Contains(ret.val.caption, "{") /\ ~Contains(ret.val.caption, "}")
        /\ NothingCounted =>
             /\ Len(ret.val.caption) > 0
             /\ Contains(ret.val.caption, "no specified openings")
             /\ \A noun \in CategoryNouns : ~Contains(ret.val.caption, noun)

C4_Witness ==
    /\ ComposeReturned /\ NothingCounted /\ ret.val.draw.template = 2
    /\ StartsWith(ret.val.caption, "Floor plan of a flat that contains , drawn")

\* C5: whenever bathrooms_shower > 0 the bathroom phrase is "<bathroom phrase>
\* including <shower phrase>", the shower phrase being "one with shower" for
\* one bathroom with shower and "<n> with shower" for n >= 2.
C5_ShowerWording ==
    (ComposeReturned /\ call.counts["bathrooms_shower"] > 0) =>
        LET n == call.counts["bathrooms_shower"]
        IN  ret.val.core_parts[2] =
                CountNoun(call.counts["bathrooms"] + n, "bathroom") \o " including "
                    \o (IF n = 1 THEN "one with shower" ELSE ToString(n) \o " with shower")

\* the noun a category's phrase is built from, for the categories of the caption
NounOf ==
    [bedrooms |-> "bedroom", kitchens |-> "kitchen", living_rooms |-> "living room",
     corridors |-> "corridor", outdoor |-> "balcony or outdoor area"]

\* C6: plural_phrase(n, singular, plural) is empty for n <= 0, "1 <singular>"
\* for n = 1 and "<n> <plural>" for n >= 2, the plural being singular + "s"
\* unless one is supplied; and the core description of build_caption holds no
\* phrase of a zero count, nor an empty piece between its separators.
C6_PluralPhrase ==
    /\ (call.fn = "plural_phrase" /\ ret.done) =>
          ret.val = IF call.n <= 0 THEN ""
                    ELSE IF call.n = 1 THEN "1 " \o call.singular
                    ELSE IF call.plural = None
                         THEN ToString(call.n) \o " " \o call.singular \o "s"
                         ELSE ToString(call.n) \o " " \o call.plural[1]
    /\ ComposeReturned =>
          /\ \A c \in DOMAIN NounOf :
                call.counts[c] = 0 => ~Contains(ret.val.core_desc, NounOf[c])
          /\ (call.counts["bathrooms"] + call.counts["bathrooms_shower"] = 0
                => ~Contains(ret.val.core_desc, "bathroom"))
          /\ \A piece \in Range(SplitOn(Replace(ret.val.core_desc, ", ", ";"), ";")) :
                piece = "" => ret.val.core_desc = ""

C6_Witness ==
    /\ call.fn = "plural_phrase" /\ ret.done
    /\ call.n = 3 /\ call.singular = "one with shower" /\ call.plural = <<"3 with shower">>
    /\ ret.val = "3 3 with shower"

\* the rooms of the list whose raw type is a key of the mapping table
MappedRooms == {i \in 1..Len(call.rooms) : call.rooms[i].type \in DOMAIN ROOM_MAPPING}

\* C7: the tally has exactly the nine categories; the count of a category is
\* the number of rooms whose raw type is a key mapped to it, so a room with a
\* mapped type adds 1 to that category alone and any other room adds nothing;
\* the counts are non-negative and add up to the number of rooms with a mapped
\* type.
C7_Taxonomy ==
    (call.fn = "aggregate_room_counts" /\ ret.done) =>
        /\ DOMAIN ret.val = Categories
        /\ \A c \in Categories :
              /\ ret.val[c] = Cardinality({i \in MappedRooms : ROOM_MAPPING[call.rooms[i].type] = c})
              /\ ret.val[c] >= 0
        /\ Sum(ret.val, Categories) = Cardinality(MappedRooms)

C7_Witness ==
    /\ call.fn = "aggregate_room_counts" /\ ret.done
    /\ Len(call.rooms) = 3
    /\ call.rooms[1].type = "bath shower" /\ call.rooms[2].type = "open kitchen"
    /\ call.rooms[3].type = "hall"
    /\ ret.val["bathrooms_shower"] = 1 /\ ret.val["corridors"] = 1
    /\ ret.val["kitchens"] = 0 /\ ret.val["bathrooms"] = 0

IsKitchen(r) == Contains(r.type, "kitchen")
IsLiving(r)  == Contains(r.type, "living")

\* C8: the detector is true exactly when a room whose type contains "kitchen"
\* and a room whose type contains "living" have touching polygons; exchanging
\* the labels of a touching kitchen and living room leaves it true, and it does
\* not depend on the order of the rooms (no exchange of two rooms changes it).
C8_Adjacency ==
    (call.fn = "has_open_plan_kitchen" /\ ret.done) =>
        LET rooms == call.rooms
            n     == Len(rooms)
        IN  /\ ret.val = (\E i, j \in 1..n :
                             /\ IsKitchen(rooms[i]) /\ IsLiving(rooms[j])
                             /\ Touches(rooms[i].polygon, rooms[j].polygon))
            /\ \A i, j \in 1..n :
                  ( /\ IsKitchen(rooms[i]) /\ IsLiving(rooms[j])
                    /\ Touches(rooms[i].polygon, rooms[j].polygon) ) =>
                  /\ Touches(rooms[j].polygon, rooms[i].polygon)
                  /\ ret.val
                  /\ has_open_plan_kitchen(
                        [m \in 1..n |->
                            IF m = i THEN [type |-> rooms[j].type, polygon |-> rooms[i].polygon]
                            ELSE IF m = j THEN [type |-> rooms[i].type, polygon |-> rooms[j].polygon]
                            ELSE rooms[m]])
            /\ \A i, j \in 1..n : has_open_plan_kitchen(Exchange(rooms, i, j)) = ret.val

\* the second kitchen touches the living room, the first does not
C8_Witness ==
    /\ call.fn = "has_open_plan_kitchen" /\ ret.done /\ ret.val
    /\ Len(call.rooms) = 3
    /\ call.rooms[1] = [type |-> "kitchen", polygon |-> RectPoly(RectC)]
    /\ call.rooms[2] = [type |-> "open kitchen", polygon |-> RectPoly(RectB)]
    /\ call.rooms[3] = [type |-> "livingroom", polygon |-> RectPoly(RectA)]

\* C9: adding a room group of any room type of the taxonomy table to a
\* drawing, or removing one from it, changes neither the doors count nor the
\* windows count.
C9_MarkersIgnoreRooms ==
    (call.fn = "count_doors_windows" /\ ret.done) =>
        /\ \A g \in RoomGroups : \A k \in 0..Len(call.drawing) :
              count_doors_windows(Insert(call.drawing, k, g)) = ret.val
        /\ \A k \in 1..Len(call.drawing) :
              call.drawing[k] \in RoomGroups =>
                  count_doors_windows(Remove(call.drawing, k)) = ret.val

TwoRuns == call.fn = "build_caption" /\ Len(ret.runs) = 2

\* C10: two runs of build_caption on the same drawing with the same draws give
\* the same caption; with any draws they raise alike and, when they do not
\* raise, they have the same core description and the same doors/windows
\* phrases, and each caption carries them.
C10_SameFacts ==
    TwoRuns =>
        LET a == ret.runs[1]
            b == ret.runs[2]
        IN  /\ (a.draw = b.draw => a.caption = b.caption)
            /\ a.exc = b.exc
            /\ a.core_desc = b.core_desc
            /\ a.doors_phrase = b.doors_phrase /\ a.windows_phrase = b.windows_phrase
            /\ a.exc = "" =>
                 /\ Contains(a.caption, a.core_desc)
                 /\ Contains(b.caption, a.core_desc)
                 /\ Contains(a.caption, b.doors_phrase \o b.windows_phrase)
                 /\ Contains(b.caption, a.doors_phrase \o a.windows_phrase)

\* the end-to-end drawing captioned with two different templates and synonyms
C10_Witness ==
    /\ TwoRuns /\ call.drawing = EndToEnd
    /\ ret.runs[1].draw = [apt |-> 1, fp |-> 1, template |-> 1]
    /\ ret.runs[2].draw = [apt |-> 2, fp |-> 3, template |-> 3]
    /\ ret.runs[1].caption # ret.runs[2].caption
    /\ ret.runs[2].core_desc =
         "1 bedroom, 1 bathroom including 1 one with shower, 1 open-plan kitchen connected to 1 living room"
    /\ ret.runs[2].doors_phrase \o ret.runs[2].windows_phrase = "2 doors and 3 windows"

====
